---- MODULE Spec2Model ----
(***************************************************************************)
(* Depth-first tree traversal with a visitor pattern (pinocchio).          *)
(*                                                                         *)
(* Two Visitor instances walk the same read-only tree.  Walker 1 is the    *)
(* visitor that Visitable::visit creates, with any max_depth hint, and     *)
(* drives until the first None, calling on_visit for every returned path. *)
(* Walker 2 is a visitor obtained from Visitable::visitor with a hint that *)
(* covers the tree; its caller keeps calling next with parameter.next(),   *)
(* also after a None.                                                      *)
(*                                                                         *)
(* Option values are sequences of length at most one: None is <<>> and     *)
(* Some(x) is <<x>>.                                                       *)
(***************************************************************************)
EXTENDS Integers, Sequences, FiniteSets, TLC

\* ------------------------------------------------------------------ bounds
MaxNodes == 4
MaxHint == 2
MaxParams == 3
MaxCalls == 5

VARIABLES tree, max_depth, parameters, stack, children, cap, zipped,
          returned, accLog, childLog, visited, pc

vars == <<tree, max_depth, parameters, stack, children, cap, zipped,
          returned, accLog, childLog, visited, pc>>

Walkers == {1, 2}
VisitWalker == 1
ManualWalker == 2

None == <<>>
Some(x) == <<x>>

Last(s) == s[Len(s)]
Front(s) == SubSeq(s, 1, Len(s) - 1)
Max(a, b) == IF a >= b THEN a ELSE b

\* ---------------------------------------------------------------- the tree
\* struct Node { val, children }: node i of the arena has value i, and its
\* children are arena indices in the order of the children vector.
RECURSIVE AscendingSeq(_)
AscendingSeq(S) ==
    IF S = {} THEN <<>>
    ELSE LET m == CHOOSE x \in S : \A y \in S : x <= y
         IN <<m>> \o AscendingSeq(S \ {m})

ParentArrays(n) ==
    { p \in [1..n -> 0..(n - 1)] : p[1] = 0 /\ \A i \in 2..n : p[i] \in 1..(i - 1) }

Node(p, i) ==
    [val |-> i, children |-> AscendingSeq({ j \in DOMAIN p : p[j] = i })]

Trees ==
    UNION { { [i \in 1..n |-> Node(p, i)] : p \in ParentArrays(n) } : n \in 1..MaxNodes }

Root == 1
Nodes == DOMAIN tree

\* ----------------------------------------------------- parameter sequences
\* The parameter slices handed to the traversal: the slices [], [2],
\* [2, 3], [2, 3, 4], ... of the tests' parameters, and the longest of them
\* in descending order.
Ascending == [i \in 1..MaxParams |-> i + 1]
Descending == [i \in 1..MaxParams |-> MaxParams + 2 - i]

ParamSeqs == { SubSeq(Ascending, 1, n) : n \in 0..MaxParams } \cup {Descending}

\* -------------------------------------------------------------- Accumulable
\* impl Accumulable for i32
neutral == 0

\* ---------------------------------------------------------------- Visitable
\* Node::children: an iterator over the children vector, modelled as the
\* sequence of the children it has yet to yield.
\* (variant: the children vector iterated from its end)
get_children_rev(n) ==
    [i \in DOMAIN tree[n].children |->
        tree[n].children[Len(tree[n].children) + 1 - i]]

get_children(n) == tree[n].children

\* Node::accumulate: self.val * zipped.unwrap_or(&1) + acc
accumulate(n, acc, z) ==
    tree[n].val * (IF z = None THEN 1 ELSE z[1]) + acc

\* ------------------------------------------------------------------ Vec<T>
\* Vec::push: appends, growing the allocation (amortised doubling) when it
\* is full.  The stack and the children vector of a walker are created with
\* the same capacity and are pushed together, so one capacity c stands for
\* both.
VecCap(len, c) ==
    IF len = c THEN Max(2 * c, len + 1) ELSE c

\* (variant: a vector of fixed capacity that drops what does not fit)
VecPushFixed(v, c, e) == IF Len(v) >= c THEN v ELSE Append(v, e)

VecPush(v, c, e) == Append(v, e)

\* Vec::pop: removes the last element, does nothing on an empty vector.
VecPop(v) == IF v = <<>> THEN v ELSE Front(v)

\* Iterator::next of slice::Iter
IterNext(it) == IF it = <<>> THEN None ELSE Some(Head(it))
IterRest(it) == IF it = <<>> THEN it ELSE Tail(it)

\* ------------------------------------------------------------ Visitor::next
\* The result of a call is a record of the walker's stacks after it, the
\* calls of the accumulate closure so far (accLog), the nodes on which this
\* call invoked the get_children closure (called) and the value returned.
\* The descending branch: accumulate from the top of the path stack, push
\* the child and its children iterator, return the whole stack.
\* (variant: the child replaces the top of both stacks instead of being
\* pushed above it)
DescendReplaceTop(st, ch, c, log, n, z) ==
    LET acc == accumulate(n, Last(st)[2], z)
    IN [stack    |-> VecPush(VecPop(st), c, <<n, acc>>),
        children |-> VecPush(VecPop(ch), c, get_children(n)),
        cap      |-> c,
        accLog   |-> Append(log, <<n, z>>),
        called   |-> <<n>>,
        ret      |-> Some(VecPush(VecPop(st), c, <<n, acc>>))]

\* (variant: the child accumulates from the root's entry, not from the top)
DescendFromRoot(st, ch, c, log, n, z) ==
    LET acc == accumulate(n, st[1][2], z)
        ch1 == [ch EXCEPT ![Len(ch)] = IterRest(ch[Len(ch)])]
    IN [stack    |-> VecPush(st, c, <<n, acc>>),
        children |-> VecPush(ch1, c, get_children(n)),
        cap      |-> VecCap(Len(st), c),
        accLog   |-> Append(log, <<n, z>>),
        called   |-> <<n>>,
        ret      |-> Some(VecPush(st, c, <<n, acc>>))]

\* (variant: the cursor of the parent is not advanced past the child)
DescendKeepCursor(st, ch, c, log, n, z) ==
    LET acc == accumulate(n, Last(st)[2], z)
    IN [stack    |-> VecPush(st, c, <<n, acc>>),
        children |-> VecPush(ch, c, get_children(n)),
        cap      |-> VecCap(Len(st), c),
        accLog   |-> Append(log, <<n, z>>),
        called   |-> <<n>>,
        ret      |-> Some(VecPush(st, c, <<n, acc>>))]

\* (variant: the accumulation is done in place on the parent's entry)
DescendInPlace(st, ch, c, log, n, z) ==
    LET acc == accumulate(n, Last(st)[2], z)
        ch1 == [ch EXCEPT ![Len(ch)] = IterRest(ch[Len(ch)])]
        st1 == [st EXCEPT ![Len(st)] = <<st[Len(st)][1], acc>>]
    IN [stack    |-> VecPush(st1, c, <<n, acc>>),
        children |-> VecPush(ch1, c, get_children(n)),
        cap      |-> VecCap(Len(st), c),
        accLog   |-> Append(log, <<n, z>>),
        called   |-> <<n>>,
        ret      |-> Some(VecPush(st1, c, <<n, acc>>))]

Descend(st, ch, c, log, n, z) ==
    LET acc == accumulate(n, Last(st)[2], z)
        ch1 == [ch EXCEPT ![Len(ch)] = IterRest(ch[Len(ch)])]
    IN [stack    |-> VecPush(st, c, <<n, acc>>),
        children |-> VecPush(ch1, c, get_children(n)),
        cap      |-> VecCap(Len(st), c),
        accLog   |-> Append(log, <<n, z>>),
        called   |-> <<n>>,
        ret      |-> Some(VecPush(st, c, <<n, acc>>))]

\* loop { match self.children.last_mut() { ... } }
\* (variant: backtracking pops the cursor stack and leaves the path stack)
RECURSIVE LoopKeepPath(_, _, _, _, _)
LoopKeepPath(st, ch, c, log, z) ==
    IF ch = <<>>
    THEN [stack |-> st, children |-> ch, cap |-> c, accLog |-> log,
          called |-> <<>>, ret |-> None]
    ELSE LET nxt == IterNext(Last(ch))
         IN IF nxt # None
            THEN Descend(st, ch, c, log, nxt[1], z)
            ELSE LoopKeepPath(st, VecPop(ch), c, log, z)

\* (variant: without a parameter the walk does not descend any further)
RECURSIVE LoopStopWithoutParam(_, _, _, _, _)
LoopStopWithoutParam(st, ch, c, log, z) ==
    IF ch = <<>> \/ z = None
    THEN [stack |-> st, children |-> ch, cap |-> c, accLog |-> log,
          called |-> <<>>, ret |-> None]
    ELSE LET nxt == IterNext(Last(ch))
         IN IF nxt # None
            THEN Descend(st, ch, c, log, nxt[1], z)
            ELSE LoopStopWithoutParam(VecPop(st), VecPop(ch), c, log, z)

\* (variant: the root's accumulator is computed again by the call that
\* finds the walk exhausted)
RECURSIVE LoopAccumulateAtEnd(_, _, _, _, _)
LoopAccumulateAtEnd(st, ch, c, log, z) ==
    IF ch = <<>>
    THEN [stack |-> st, children |-> ch, cap |-> c,
          accLog |-> Append(log, <<Root, z>>), called |-> <<>>, ret |-> None]
    ELSE LET nxt == IterNext(Last(ch))
         IN IF nxt # None
            THEN Descend(st, ch, c, log, nxt[1], z)
            ELSE LoopAccumulateAtEnd(VecPop(st), VecPop(ch), c, log, z)

RECURSIVE Loop(_, _, _, _, _)
Loop(st, ch, c, log, z) ==
    IF ch = <<>>
    THEN [stack |-> st, children |-> ch, cap |-> c, accLog |-> log,
          called |-> <<>>, ret |-> None]
    ELSE LET nxt == IterNext(Last(ch))
         IN IF nxt # None
            THEN Descend(st, ch, c, log, nxt[1], z)
            ELSE Loop(VecPop(st), VecPop(ch), c, log, z)

\* The entry branch: the path stack is empty.
\* (variant: the root is pushed without its children iterator)
EnterNoCursor(st, ch, c, log, z) ==
    LET acc == accumulate(Root, neutral, z)
    IN [stack    |-> VecPush(st, c, <<Root, acc>>),
        children |-> ch,
        cap      |-> VecCap(Len(st), c),
        accLog   |-> Append(log, <<Root, z>>),
        called   |-> <<>>,
        ret      |-> Some(VecPush(st, c, <<Root, acc>>))]

Enter(st, ch, c, log, z) ==
    LET acc == accumulate(Root, neutral, z)
    IN [stack    |-> VecPush(st, c, <<Root, acc>>),
        children |-> VecPush(ch, c, get_children(Root)),
        cap      |-> VecCap(Len(st), c),
        accLog   |-> Append(log, <<Root, z>>),
        called   |-> <<Root>>,
        ret      |-> Some(VecPush(st, c, <<Root, acc>>))]

\* (variant: the entry test looks at one stack shared by all walkers)
next_shared(w, z) ==
    IF stack[VisitWalker] = <<>>
    THEN Enter(stack[w], children[w], cap[w], accLog[w], z)
    ELSE Loop(stack[w], children[w], cap[w], accLog[w], z)

next(w, z) ==
    IF stack[w] = <<>>
    THEN Enter(stack[w], children[w], cap[w], accLog[w], z)
    ELSE Loop(stack[w], children[w], cap[w], accLog[w], z)

\* One call visitor.next(zipped.next()) on walker w and its effect on the
\* walker; r is the result of the call.
\* (variant: the parameter iterator is not advanced by the call)
AdvanceKeepParam(w, r) ==
    /\ stack' = [stack EXCEPT ![w] = r.stack]
    /\ children' = [children EXCEPT ![w] = r.children]
    /\ cap' = [cap EXCEPT ![w] = r.cap]
    /\ accLog' = [accLog EXCEPT ![w] = r.accLog]
    /\ childLog' = [childLog EXCEPT ![w] = childLog[w] \o r.called]
    /\ zipped' = zipped
    /\ returned' = [returned EXCEPT ![w] = Append(returned[w], r.ret)]

\* (variant: all walkers draw their parameters from one iterator)
AdvanceSharedParams(w, r) ==
    /\ stack' = [stack EXCEPT ![w] = r.stack]
    /\ children' = [children EXCEPT ![w] = r.children]
    /\ cap' = [cap EXCEPT ![w] = r.cap]
    /\ accLog' = [accLog EXCEPT ![w] = r.accLog]
    /\ childLog' = [childLog EXCEPT ![w] = childLog[w] \o r.called]
    /\ zipped' = [x \in Walkers |-> IterRest(zipped[x])]
    /\ returned' = [returned EXCEPT ![w] = Append(returned[w], r.ret)]

Advance(w, r) ==
    /\ stack' = [stack EXCEPT ![w] = r.stack]
    /\ children' = [children EXCEPT ![w] = r.children]
    /\ cap' = [cap EXCEPT ![w] = r.cap]
    /\ accLog' = [accLog EXCEPT ![w] = r.accLog]
    /\ childLog' = [childLog EXCEPT ![w] = childLog[w] \o r.called]
    /\ zipped' = [zipped EXCEPT ![w] = IterRest(zipped[w])]
    /\ returned' = [returned EXCEPT ![w] = Append(returned[w], r.ret)]

\* ------------------------------------------------------------------- Init
\* Visitor::new: empty stacks with the capacity of the max_depth hint.  The
\* hint of walker 1 is any small number, the hint of walker 2 is the number
\* of nodes, which no path exceeds.
Init ==
    /\ tree \in Trees
    /\ stack = [w \in Walkers |-> <<>>]
    /\ children = [w \in Walkers |-> <<>>]
    /\ \E h \in 0..MaxHint :
          max_depth = [w \in Walkers |->
                          IF w = VisitWalker THEN h ELSE Cardinality(Nodes)]
    /\ parameters \in [Walkers -> ParamSeqs]
    /\ cap = max_depth
    /\ zipped = parameters
    /\ returned = [w \in Walkers |-> <<>>]
    /\ accLog = [w \in Walkers |-> <<>>]
    /\ childLog = [w \in Walkers |-> <<>>]
    /\ visited = <<>>
    /\ pc = "loop"

\* ---------------------------------------------------------------- actions
\* Visitable::visit, one iteration of
\*   while let Some(stack) = visitor.next(zipped.next()) { self.on_visit(stack, payload) }
\* on_visit is recorded in the payload with its receiver and the path.
\* (variant: the loop zips the traversal with the parameters and ends
\* with the shorter of the two)
visit_zip ==
    /\ pc = "loop"
    /\ IF IterNext(zipped[VisitWalker]) = None
       THEN /\ pc' = "done"
            /\ UNCHANGED <<stack, children, cap, accLog, childLog, zipped, returned,
                         visited>>
       ELSE \E r \in {next(VisitWalker, IterNext(zipped[VisitWalker]))} :
              /\ Advance(VisitWalker, r)
              /\ IF r.ret # None
                 THEN /\ visited' = Append(visited, [self |-> Root, stack |-> r.ret[1]])
                      /\ pc' = pc
                 ELSE /\ visited' = visited
                      /\ pc' = "done"
    /\ UNCHANGED <<tree, max_depth, parameters>>

visit ==
    /\ pc = "loop"
    /\ \E r \in {next(VisitWalker, IterNext(zipped[VisitWalker]))} :
        /\ Advance(VisitWalker, r)
        /\ IF r.ret # None
           THEN /\ visited' = Append(visited, [self |-> Root, stack |-> r.ret[1]])
                /\ pc' = pc
           ELSE /\ visited' = visited
                /\ pc' = "done"
    /\ UNCHANGED <<tree, max_depth, parameters>>

\* A caller of the Visiting trait: visitor.next(parameter.next()).
call_next ==
    /\ Len(returned[ManualWalker]) < MaxCalls
    /\ \E r \in {next(ManualWalker, IterNext(zipped[ManualWalker]))} :
        Advance(ManualWalker, r)
    /\ UNCHANGED <<tree, max_depth, parameters, visited, pc>>

Next == visit \/ call_next

Spec == Init /\ [][Next]_vars

\* Visitable::visit is a synchronous loop: while it has not returned it
\* keeps making its next call.
FairSpec == Spec /\ WF_vars(visit)

\* =================================================================
\* Reference notions of the tree, defined from the node structure alone.
\* =================================================================
Range(s) == { s[i] : i \in DOMAIN s }

IsLeaf(n) == tree[n].children = <<>>

\* The node whose children vector holds n (0 for the root).
ParentOf(n) ==
    IF \E p \in Nodes : n \in Range(tree[p].children)
    THEN CHOOSE p \in Nodes : n \in Range(tree[p].children)
    ELSE 0

RECURSIVE Depth(_)
Depth(n) == IF ParentOf(n) = 0 THEN 1 ELSE 1 + Depth(ParentOf(n))

RECURSIVE Subtree(_)
Subtree(n) == {n} \cup UNION { Subtree(c) : c \in Range(tree[n].children) }

RECURSIVE PreOrder(_)
RECURSIVE PreOrderAll(_)
PreOrder(n) == <<n>> \o PreOrderAll(tree[n].children)
PreOrderAll(cs) ==
    IF cs = <<>> THEN <<>> ELSE PreOrder(Head(cs)) \o PreOrderAll(Tail(cs))

\* Position of x in a sequence (0 when absent).
IndexOf(s, x) ==
    IF x \in Range(s) THEN CHOOSE i \in DOMAIN s : s[i] = x ELSE 0

\* ------------------------------------------------ views of the call log
\* The index of the first call of walker w that returned None (0 if none).
FirstNone(w) ==
    IF \E k \in DOMAIN returned[w] : returned[w][k] = None
    THEN CHOOSE k \in DOMAIN returned[w] :
            /\ returned[w][k] = None
            /\ \A j \in 1..(k - 1) : returned[w][j] # None
    ELSE 0

\* The paths a fresh walker returned up to its first None.
FirstWalk(w) ==
    LET n == FirstNone(w) IN
    IF n = 0
    THEN [k \in DOMAIN returned[w] |-> returned[w][k][1]]
    ELSE [k \in 1..(n - 1) |-> returned[w][k][1]]

\* The last node of each path of the first walk.
VisitedNodes(w) ==
    LET walk == FirstWalk(w) IN [k \in DOMAIN walk |-> Last(walk[k])[1]]

\* The parameter handed to the k-th call: the k-th element of the slice.
ParamOfCall(w, k) ==
    IF k <= Len(parameters[w]) THEN Some(parameters[w][k]) ELSE None

\* =================================================================
\* C1 -- Exhaustion is terminal: once a call of next on a walker has
\* returned None, every later call on that walker returns None too.
\* =================================================================
C1_ExhaustionTerminal ==
    \A w \in Walkers : \A i, j \in DOMAIN returned[w] :
        (i < j /\ returned[w][i] = None) => returned[w][j] = None

\* =================================================================
\* C2 -- Visitable::visit invokes on_visit exactly once per node, on the
\* node itself: the receiver of every invocation is the node of the last
\* entry of the path passed, and when visit has returned every node of
\* the tree has been the receiver exactly once.
\* =================================================================
C2_OnVisitOncePerNode ==
    /\ \A k \in DOMAIN visited :
          /\ visited[k].stack # <<>>
          /\ visited[k].self = Last(visited[k].stack)[1]
    /\ pc = "done" =>
          \A n \in Nodes : Cardinality({ k \in DOMAIN visited : visited[k].self = n }) = 1

\* =================================================================
\* C3 -- Visitation completeness and order: the paths a fresh walker
\* returns up to its first None end in the nodes of the tree in
\* depth-first pre-order, every node exactly once; for two siblings every
\* node of the left sibling's subtree comes before any node of the right
\* sibling's subtree.
\* =================================================================
C3_PreOrderComplete ==
    \A w \in Walkers :
        LET vs == VisitedNodes(w)
            po == PreOrder(Root)
        IN
        /\ Len(vs) <= Len(po)
        /\ vs = SubSeq(po, 1, Len(vs))
        /\ \A i, j \in DOMAIN vs : i # j => vs[i] # vs[j]
        /\ FirstNone(w) # 0 => Range(vs) = Nodes
        /\ \A p \in Nodes : \A a, b \in DOMAIN tree[p].children :
              a < b =>
                \A x \in Subtree(tree[p].children[a]), y \in Subtree(tree[p].children[b]) :
                    y \in Range(vs) =>
                        /\ x \in Range(vs)
                        /\ IndexOf(vs, x) < IndexOf(vs, y)

\* A finished first walk over a tree in which a left sibling has a child.
C3_Witness ==
    \E w \in Walkers :
        /\ FirstNone(w) # 0
        /\ \E p \in Nodes :
              /\ Len(tree[p].children) >= 2
              /\ ~IsLeaf(tree[p].children[1])

\* =================================================================
\* C4 -- Path correctness: every path returned by next is non-empty,
\* starts with the root, each entry's node is a child of the previous
\* entry's node, its last entry is the node accumulated by this call, and
\* its length is the depth of that node (root = depth 1).
\* =================================================================
\* The number of calls up to call k that returned a path.
PathsUpTo(w, k) == Cardinality({ j \in 1..k : returned[w][j] # None })

C4_PathCorrect ==
    \A w \in Walkers : \A k \in DOMAIN returned[w] :
        returned[w][k] # None =>
            LET path == returned[w][k][1] IN
            /\ path # <<>>
            /\ path[1][1] = Root
            /\ \A i \in 2..Len(path) : path[i][1] \in Range(tree[path[i - 1][1]].children)
            /\ Last(path)[1] = accLog[w][PathsUpTo(w, k)][1]
            /\ Len(path) = Depth(Last(path)[1])

\* A returned path of three entries, and a path returned after backtracking.
C4_Witness ==
    \E w \in Walkers : \E k \in DOMAIN returned[w] :
        /\ k > 1
        /\ returned[w][k] # None
        /\ returned[w][k - 1] # None
        /\ Len(returned[w][k - 1][1]) >= 3
        /\ Len(returned[w][k][1]) < Len(returned[w][k - 1][1])
\* =================================================================
\* C5 -- Accumulator fold law: in every returned path the accumulator at
\* position 1 is accumulate(root, neutral, p) and the accumulator at
\* position i > 1 is accumulate(node_i, accumulator at i-1, p), p being
\* the parameter of the call in which that entry was pushed.
\* =================================================================
PathLen(w, k) == IF returned[w][k] = None THEN 0 ELSE Len(returned[w][k][1])

\* The call up to call k in which entry i of the path of call k was pushed:
\* the latest call that returned a path of length i and since which the
\* path never was shorter than i.
PushCall(w, k, i) ==
    CHOOSE j \in 1..k :
        /\ PathLen(w, j) = i
        /\ \A m \in j..k : PathLen(w, m) >= i
        /\ \A j2 \in (j + 1)..k :
              ~(PathLen(w, j2) = i /\ \A m \in j2..k : PathLen(w, m) >= i)

C5_FoldLaw ==
    \A w \in Walkers : \A k \in DOMAIN returned[w] :
        returned[w][k] # None =>
            LET path == returned[w][k][1] IN
            \A i \in DOMAIN path :
                path[i][2] =
                    accumulate(path[i][1],
                               IF i = 1 THEN neutral ELSE path[i - 1][2],
                               ParamOfCall(w, PushCall(w, k, i)))

\* A path of at least two entries returned right after the path of a
\* left sibling, with a parameter present in that call.
C5_Witness ==
    \E w \in Walkers : \E k \in DOMAIN returned[w] :
        /\ k > 2
        /\ PathLen(w, k) >= 2
        /\ PathLen(w, k - 1) >= PathLen(w, k)
        /\ ParamOfCall(w, k) # None

\* =================================================================
\* C6 -- Parameter pairing: fed p1, p2, ... one per call, the k-th node in
\* pre-order is accumulated with p_k; for root 1 with leaf children
\* [2, 3] and parameters [2, 3, 4] the last accumulators of the returned
\* paths are 2, 8, 14.
\* =================================================================
ScenarioTree ==
    <<[val |-> 1, children |-> <<2, 3>>],
      [val |-> 2, children |-> <<>>],
      [val |-> 3, children |-> <<>>]>>

ScenarioParameters == <<2, 3, 4>>
ScenarioExpectation == <<2, 8, 14>>

C6_ParameterPairing ==
    \A w \in Walkers :
        LET walk == FirstWalk(w)
            po == PreOrder(Root)
        IN
        /\ Len(zipped[w]) = Max(Len(parameters[w]) - Len(returned[w]), 0)
        /\ \A k \in DOMAIN walk :
              /\ k <= Len(po)
              /\ accLog[w][k] = <<po[k], ParamOfCall(w, k)>>
        /\ (tree = ScenarioTree /\ parameters[w] = ScenarioParameters) =>
              \A k \in DOMAIN walk : Last(walk[k])[2] = ScenarioExpectation[k]

\* The scenario of the tests, walked to its end.
C6_Witness ==
    \E w \in Walkers :
        /\ tree = ScenarioTree
        /\ parameters[w] = ScenarioParameters
        /\ FirstNone(w) = 4

\* =================================================================
\* C7 -- Leaf immediacy: no returned path holds a childless node anywhere
\* but at its end; when the call after a leaf's path returns a path, the
\* leaf is gone from it and it is not longer than the leaf's path.
\* =================================================================
C7_LeafImmediacy ==
    \A w \in Walkers : \A k \in DOMAIN returned[w] :
        returned[w][k] # None =>
            LET path == returned[w][k][1] IN
            /\ \A i \in 1..(Len(path) - 1) : ~IsLeaf(path[i][1])
            /\ (/\ path # <<>>
                /\ IsLeaf(Last(path)[1])
                /\ k + 1 \in DOMAIN returned[w]
                /\ returned[w][k + 1] # None) =>
                  LET after == returned[w][k + 1][1] IN
                  /\ Len(after) <= Len(path)
                  /\ \A i \in DOMAIN after : after[i][1] # Last(path)[1]

\* A leaf's path followed by the path of its right sibling.
C7_Witness ==
    \E w \in Walkers : \E k \in DOMAIN returned[w] :
        /\ returned[w][k] # None
        /\ IsLeaf(Last(returned[w][k][1])[1])
        /\ k + 1 \in DOMAIN returned[w]
        /\ returned[w][k + 1] # None
        /\ Len(returned[w][k + 1][1]) = Len(returned[w][k][1])

\* =================================================================
\* C8 -- Running out of parameters is not an error: with fewer parameters
\* than nodes Visitable::visit still visits every node in pre-order, and
\* accumulate receives None exactly for the nodes whose pre-order position
\* is beyond the length of the parameter sequence.
\* =================================================================
C8_ShortParameters ==
    Len(parameters[VisitWalker]) < Cardinality(Nodes) =>
        LET po == PreOrder(Root) IN
        /\ Len(visited) <= Len(po)
        /\ \A k \in DOMAIN visited :
              visited[k].stack # <<>> /\ Last(visited[k].stack)[1] = po[k]
        /\ pc = "done" => Len(visited) = Len(po)
        /\ Len(accLog[VisitWalker]) = Len(visited)
        /\ \A k \in DOMAIN accLog[VisitWalker] :
              /\ accLog[VisitWalker][k][1] = po[k]
              /\ (accLog[VisitWalker][k][2] = None) <=> (k > Len(parameters[VisitWalker]))

\* visit has returned after running out of a non-empty parameter sequence.
C8_Witness ==
    /\ pc = "done"
    /\ Len(parameters[VisitWalker]) > 0
    /\ Len(parameters[VisitWalker]) + 1 < Cardinality(Nodes)
    /\ accLog[VisitWalker][Len(accLog[VisitWalker])][2] = None

\* =================================================================
\* C9 -- The max_depth hint is never a limit: a walker with any hint,
\* also 0 or less than the tree's depth, returns the same paths and
\* signals exhaustion at the same call as a walker fed the same
\* parameters whose hint covers the tree; the vectors grow past the hint.
\* =================================================================
SameReturns ==
    \A k \in DOMAIN returned[VisitWalker] \cap DOMAIN returned[ManualWalker] :
        returned[VisitWalker][k] = returned[ManualWalker][k]

C9_HintNeverLimits ==
    /\ max_depth[ManualWalker] >= Cardinality(Nodes)
    /\ parameters[VisitWalker] = parameters[ManualWalker] => SameReturns
    /\ \A w \in Walkers :
          /\ Len(stack[w]) <= cap[w]
          /\ FirstNone(w) # 0 => FirstNone(w) = Cardinality(Nodes) + 1

\* Two walkers with different hints, both exhausted, one of which returned
\* a path deeper than its hint.
C9_Witness ==
    /\ parameters[VisitWalker] = parameters[ManualWalker]
    /\ max_depth[VisitWalker] < max_depth[ManualWalker]
    /\ FirstNone(VisitWalker) # 0
    /\ FirstNone(ManualWalker) # 0
    /\ \E k \in DOMAIN returned[VisitWalker] :
          PathLen(VisitWalker, k) > max_depth[VisitWalker] + 1

NodesOfCall(w, k) ==
    IF returned[w][k] = None
    THEN None
    ELSE Some([i \in DOMAIN returned[w][k][1] |-> returned[w][k][1][i][1]])

C11_ParametersNotStructural ==
    /\ \A k \in 1..Len(returned[VisitWalker]) :
          k <= Len(returned[ManualWalker]) =>
              NodesOfCall(VisitWalker, k) = NodesOfCall(ManualWalker, k)
    /\ \A w \in Walkers :
          FirstNone(w) # 0 => FirstNone(w) = Cardinality(Nodes) + 1

\* Two walkers fed parameter sequences of different lengths and values,
\* one of them shorter than the tree, both walked to the end, with
\* different accumulators on the way.
C11_Witness ==
    /\ Len(parameters[VisitWalker]) # Len(parameters[ManualWalker])
    /\ parameters[ManualWalker] = Descending
    /\ Len(parameters[VisitWalker]) \in 1..(Cardinality(Nodes) - 1)
    /\ FirstNone(VisitWalker) # 0
    /\ FirstNone(ManualWalker) # 0
    /\ returned[VisitWalker][1] # returned[ManualWalker][1]

\* =================================================================
\* C12 -- Parallel-stack invariant: before and after every call of next,
\* also after exhaustion, the child-cursor stack and the path stack of a
\* walker have the same length; the returned path is the path stack.
\* =================================================================
C12_ParallelStacks ==
    \A w \in Walkers :
        /\ Len(children[w]) = Len(stack[w])
        /\ returned[w] # <<>> =>
              LET r == Last(returned[w]) IN
              IF r = None THEN stack[w] = <<>> ELSE stack[w] = r[1]

\* A walker that was exhausted, has been called again and holds a path of
\* two entries.
C12_Witness ==
    \E w \in Walkers :
        /\ FirstNone(w) # 0
        /\ Len(returned[w]) > FirstNone(w) + 1
        /\ Len(stack[w]) >= 2
\* =================================================================
\* C13 -- Termination: a call of next pops at most as many levels as the
\* path is long, and Visitable::visit returns, after exactly N + 1 calls
\* of next (N returning a path, the last one None) and N invocations of
\* on_visit, N being the number of nodes.
\* =================================================================
\* The levels the next call of next pops: the exhausted cursors on top of
\* the cursor stack.
RECURSIVE ExhaustedOnTop(_)
ExhaustedOnTop(ch) ==
    IF ch = <<>> \/ Last(ch) # <<>> THEN 0 ELSE 1 + ExhaustedOnTop(Front(ch))

C13_VisitBounded ==
    /\ \A w \in Walkers : ExhaustedOnTop(children[w]) <= Len(stack[w])
    /\ \A w \in Walkers : \A k \in 2..Len(returned[w]) :
          PathLen(w, k) <= PathLen(w, k - 1) + 1
    /\ Len(visited) = PathsUpTo(VisitWalker, Len(returned[VisitWalker]))
    /\ pc = "loop" =>
          /\ Len(returned[VisitWalker]) <= Cardinality(Nodes)
          /\ FirstNone(VisitWalker) = 0
    /\ pc = "done" =>
          /\ Len(returned[VisitWalker]) = Cardinality(Nodes) + 1
          /\ FirstNone(VisitWalker) = Cardinality(Nodes) + 1
          /\ Len(visited) = Cardinality(Nodes)

C13_Termination == []C13_VisitBounded /\ <>(pc = "done")

\* visit has returned from a tree of four nodes in which a call popped two
\* levels at once.
C13_Witness ==
    /\ pc = "done"
    /\ Cardinality(Nodes) >= 4
    /\ \E k \in 2..Len(returned[VisitWalker]) :
          /\ returned[VisitWalker][k] # None
          /\ PathLen(VisitWalker, k) + 1 = PathLen(VisitWalker, k - 1)
\* =================================================================
\* C14 -- One node per advance, ancestors untouched: a call that returns a
\* path pushes exactly one entry; the returned path is a prefix of the
\* path held before the call followed by that entry, and the entries of
\* the prefix, node and accumulator, are as they were.
\* =================================================================
\* The path stack a walker held before its call k.
PathBefore(w, k) ==
    IF k = 1 \/ returned[w][k - 1] = None THEN <<>> ELSE returned[w][k - 1][1]

C14_OneNodeAncestorsUntouched ==
    \A w \in Walkers : \A k \in DOMAIN returned[w] :
        returned[w][k] # None =>
            LET path == returned[w][k][1]
                before == PathBefore(w, k)
            IN
            /\ path # <<>>
            /\ Len(path) - 1 <= Len(before)
            /\ Front(path) = SubSeq(before, 1, Len(path) - 1)
            /\ Len(accLog[w]) >= PathsUpTo(w, k)
            /\ Last(path)[1] = accLog[w][PathsUpTo(w, k)][1]

\* A path of two entries returned after backing out of a deeper subtree
\* of a sibling.
C14_Witness ==
    \E w \in Walkers : \E k \in DOMAIN returned[w] :
        /\ returned[w][k] # None
        /\ Len(returned[w][k][1]) >= 2
        /\ Len(PathBefore(w, k)) > Len(returned[w][k][1])
\* =================================================================
\* C15 -- Independent walkers: with the calls of two walkers of one tree
\* interleaved in any order, each walker returns what it returns when run
\* alone, and a call on one walker changes neither the other walker nor
\* the tree.
\* =================================================================
\* A walker with hint c run alone for n calls on the parameters zs, from
\* its construction: its stacks and the results of its calls.
RECURSIVE RunAlone(_, _, _, _, _, _)
RunAlone(st, ch, c, zs, n, out) ==
    IF n = 0
    THEN [stack |-> st, children |-> ch, returned |-> out]
    ELSE LET r == IF st = <<>>
                  THEN Enter(st, ch, c, <<>>, IterNext(zs))
                  ELSE Loop(st, ch, c, <<>>, IterNext(zs))
         IN RunAlone(r.stack, r.children, r.cap, IterRest(zs), n - 1,
                     Append(out, r.ret))

C15_AsAlone ==
    \A w \in Walkers :
        LET alone == RunAlone(<<>>, <<>>, max_depth[w], parameters[w],
                              Len(returned[w]), <<>>)
        IN /\ returned[w] = alone.returned
           /\ stack[w] = alone.stack
           /\ children[w] = alone.children

\* What a walker consists of.
WalkerState(w) ==
    <<stack[w], children[w], cap[w], zipped[w], returned[w], accLog[w],
      childLog[w]>>

C15_Frame ==
    /\ tree' = tree
    /\ \A w \in Walkers :
          WalkerState(w)' # WalkerState(w) =>
              \A o \in Walkers \ {w} : WalkerState(o)' = WalkerState(o)

C15_IndependentWalkers == []C15_AsAlone /\ [][C15_Frame]_vars

\* Both walkers are in the middle of their walks, at different nodes, with
\* different parameters.
C15_Witness ==
    /\ parameters[VisitWalker] # parameters[ManualWalker]
    /\ Len(returned[VisitWalker]) >= 2
    /\ Len(returned[ManualWalker]) >= 1
    /\ Len(returned[VisitWalker]) # Len(returned[ManualWalker])
    /\ stack[VisitWalker] # <<>>
    /\ stack[ManualWalker] # <<>>
    /\ Last(stack[VisitWalker])[1] # Last(stack[ManualWalker])[1]
\* =================================================================
\* C16 -- Callback call counts: accumulate and the child enumeration are
\* each invoked exactly once per returned path, on the node just pushed,
\* and not at all by a call that returns None; so in a first walk fed one
\* parameter per node, accumulate never receives None.
\* =================================================================
C16_CallbackCounts ==
    \A w \in Walkers :
        LET paths == PathsUpTo(w, Len(returned[w])) IN
        /\ Len(accLog[w]) = paths
        /\ Len(childLog[w]) = paths
        /\ \A k \in DOMAIN returned[w] :
              (returned[w][k] # None /\ returned[w][k][1] # <<>>) =>
                  LET j == PathsUpTo(w, k) IN
                  /\ j <= Len(accLog[w]) /\ j <= Len(childLog[w])
                  /\ accLog[w][j][1] = Last(returned[w][k][1])[1]
                  /\ childLog[w][j] = Last(returned[w][k][1])[1]
        /\ Len(parameters[w]) >= Cardinality(Nodes) =>
              \A j \in DOMAIN FirstWalk(w) :
                  j <= Len(accLog[w]) => accLog[w][j][2] # None

\* A walker fed exactly one parameter per node right after the call that
\* returned its first None, for which the parameters had run out.
C16_Witness ==
    \E w \in Walkers :
        /\ Cardinality(Nodes) = Len(parameters[w])
        /\ Cardinality(Nodes) >= 3
        /\ FirstNone(w) = Len(returned[w])
        /\ zipped[w] = <<>>
====
